---- MODULE Spec2Model ----
(***************************************************************************)
(* Open To Close client SDK: the property field-mapping resolver, the      *)
(* request-data normalizer of PropertiesAPI and the HTTP error translation *)
(* of BaseClient.                                                          *)
(*                                                                         *)
(* Python strings are sequences of one-character strings, so that lower(), *)
(* strip(), replace() and startswith() are computed, not assumed.  Python  *)
(* values are tagged records [t, v]; a dict is the sequence of its         *)
(* [k, v] items in insertion order.                                        *)
(***************************************************************************)
EXTENDS Integers, Sequences, FiniteSets, TLC

VARIABLES field_mappings, server_fields, last, http, client

vars == <<field_mappings, server_fields, last, http, client>>

-----------------------------------------------------------------------------
(* Python values *)

NoneV == [t |-> "none", v |-> 0]
StrV(s) == [t |-> "str", v |-> s]
IntV(n) == [t |-> "int", v |-> n]
ListV(l) == [t |-> "list", v |-> l]
DictV(d) == [t |-> "dict", v |-> d]
BoolV(b) == [t |-> "bool", v |-> b]
Item(k, x) == [k |-> k, v |-> x]

\* bool(x)
Truthy(x) ==
    CASE x.t = "none" -> FALSE
      [] x.t = "int" -> x.v # 0
      [] x.t = "bool" -> x.v
      [] OTHER -> Len(x.v) > 0

\* a or b
PyOr(a, b) == IF Truthy(a) THEN a ELSE b

\* k in d
HasKey(d, k) == \E i \in 1..Len(d) : d[i].k = k

\* d[k], for k in d
Lookup(d, k) == d[CHOOSE i \in 1..Len(d) : d[i].k = k].v

\* d.get(k, dflt)
GetOr(d, k, dflt) == IF HasKey(d, k) THEN Lookup(d, k) ELSE dflt

\* d.get(k)
Get(d, k) == GetOr(d, k, NoneV)

RECURSIVE SetKey(_, _, _)
\* d[k] = x on an ordered dict: a key already present keeps its position
SetKey(d, k, x) ==
    IF d = <<>> THEN <<Item(k, x)>>
    ELSE IF Head(d).k = k THEN <<Item(k, x)>> \o Tail(d)
    ELSE <<Head(d)>> \o SetKey(Tail(d), k, x)

RECURSIVE Merge(_, _)
\* {**a, **b}
Merge(a, b) ==
    IF b = <<>> THEN a ELSE Merge(SetKey(a, Head(b).k, Head(b).v), Tail(b))

-----------------------------------------------------------------------------
(* Python string methods *)

UpperLetters ==
    <<"A", "B", "C", "D", "E", "F", "G", "H", "I", "J", "K", "L", "M",
      "N", "O", "P", "Q", "R", "S", "T", "U", "V", "W", "X", "Y", "Z">>

LowerLetters ==
    <<"a", "b", "c", "d", "e", "f", "g", "h", "i", "j", "k", "l", "m",
      "n", "o", "p", "q", "r", "s", "t", "u", "v", "w", "x", "y", "z">>

Digits == <<"0", "1", "2", "3", "4", "5", "6", "7", "8", "9">>

Whitespace == {" ", "\t", "\n"}

LowerChar(c) ==
    IF \E i \in 1..Len(UpperLetters) : UpperLetters[i] = c
    THEN LowerLetters[CHOOSE i \in 1..Len(UpperLetters) : UpperLetters[i] = c]
    ELSE c

\* s.lower()
Lower(s) == [i \in 1..Len(s) |-> LowerChar(s[i])]

\* s.replace(a, b) for one-character a and b
Replace(s, a, b) == [i \in 1..Len(s) |-> IF s[i] = a THEN b ELSE s[i]]

\* s.startswith(p)
StartsWith(s, p) == Len(s) >= Len(p) /\ SubSeq(s, 1, Len(p)) = p

\* s[n:]
DropFirst(s, n) == IF n >= Len(s) THEN <<>> ELSE SubSeq(s, n + 1, Len(s))

RECURSIVE LStrip(_)
LStrip(s) ==
    IF s # <<>> /\ Head(s) \in Whitespace THEN LStrip(Tail(s)) ELSE s

RECURSIVE RStrip(_)
RStrip(s) ==
    IF s # <<>> /\ s[Len(s)] \in Whitespace
    THEN RStrip(SubSeq(s, 1, Len(s) - 1)) ELSE s

\* s.strip()
Strip(s) == RStrip(LStrip(s))

RECURSIVE NatToStr(_)
NatToStr(n) ==
    IF n < 10 THEN <<Digits[n + 1]>>
    ELSE NatToStr(n \div 10) \o <<Digits[(n % 10) + 1]>>

\* str(n) for an int n
IntToStr(n) == IF n < 0 THEN <<"-">> \o NatToStr(0 - n) ELSE NatToStr(n)

\* str(x) for the str and int values a mapped field is given
PyStr(x) == IF x.t = "int" THEN IntToStr(x.v) ELSE x.v

IsDigit(c) == \E i \in 1..Len(Digits) : Digits[i] = c

\* float(s) succeeds: an optionally signed run of digits, whitespace around it
\* (the strings of this model hold no ".", "e", "_", "inf" or "nan")
ParsesAsNumber(s) ==
    LET b == Strip(s)
        u == IF b # <<>> /\ Head(b) \in {"-", "+"} THEN Tail(b) ELSE b
    IN  u # <<>> /\ \A i \in 1..Len(u) : IsDigit(u[i])

\* float(s) < 0, for s that parses
ParsedNegative(s) ==
    LET b == Strip(s)
    IN  Head(b) = "-" /\ \E i \in 2..Len(b) : b[i] # "0"

-----------------------------------------------------------------------------
(* Field mapping tables: key -> {id, type, options}; options in dict order *)

Opt(k, id) == [k |-> k, id |-> id]
Field(key, id, type, has_options, options) ==
    [key |-> key, id |-> id, type |-> type,
     has_options |-> has_options, options |-> options]

kBuyer == <<"b", "u", "y", "e", "r">>
kSeller == <<"s", "e", "l", "l", "e", "r">>
kDual == <<"d", "u", "a", "l">>
kListingActive == <<"l", "i", "s", "t", "i", "n", "g", "-", " ", "a", "c", "t", "i", "v", "e">>
kActive == <<"a", "c", "t", "i", "v", "e">>
kUnderContract == <<"u", "n", "d", "e", "r", " ", "c", "o", "n", "t", "r", "a", "c", "t">>
kClosed == <<"c", "l", "o", "s", "e", "d">>
kPreMls == <<"p", "r", "e", "-", "m", "l", "s">>
kCondo == <<"c", "o", "n", "d", "o">>

\* The field definitions the examples describe (IDs of updated_api_examples.py)
TableA ==
    <<Field("contract_title", 926565, "text", FALSE, <<>>),
      Field("contract_client_type", 926553, "choice", TRUE,
            <<Opt(kBuyer, 797212), Opt(kSeller, 797213), Opt(kDual, 797214)>>),
      Field("contract_status", 926552, "choice", TRUE,
            <<Opt(kPreMls, 797205), Opt(kListingActive, 797206),
              Opt(kUnderContract, 797207), Opt(kClosed, 797210)>>),
      Field("purchase_amount", 926554, "money", FALSE, <<>>),
      Field("property_type", 926560, "choice", TRUE, <<Opt(kCondo, 797222)>>)>>

\* Other option IDs, "active" as its own status option, no property_type
TableB ==
    <<Field("contract_title", 926565, "text", FALSE, <<>>),
      Field("contract_status", 926552, "choice", TRUE,
            <<Opt(kActive, 41), Opt(kListingActive, 42), Opt(kClosed, 43)>>),
      Field("contract_client_type", 926553, "choice", TRUE,
            <<Opt(kSeller, 31), Opt(kBuyer, 32)>>),
      Field("purchase_amount", 926554, "text", FALSE, <<>>)>>

\* Another title field ID, a choice field without options, no status field
TableC ==
    <<Field("contract_title", 500, "text", FALSE, <<>>),
      Field("contract_client_type", 501, "choice", FALSE, <<>>),
      Field("property_type", 502, "choice", TRUE, <<Opt(kCondo, 61)>>)>>

Tables == <<TableA, TableB, TableC>>

\* fm.get(key) is not None
HasField(fm, key) == \E i \in 1..Len(fm) : fm[i].key = key

\* fm[key]
FieldOf(fm, key) == fm[CHOOSE i \in 1..Len(fm) : fm[i].key = key]

\* options.get(key)
OptionsGet(options, key) ==
    IF \E i \in 1..Len(options) : options[i].k = key
    THEN IntV(options[CHOOSE i \in 1..Len(options) : options[i].k = key].id)
    ELSE NoneV

-----------------------------------------------------------------------------
(* PropertiesAPI._convert_simple_to_api_format *)

field_aliases(k) ==
    CASE k = "title" -> "contract_title"
      [] k = "client_type" -> "contract_client_type"
      [] k = "status" -> "contract_status"
      [] OTHER -> k

sListingPrefix == <<"l", "i", "s", "t", "i", "n", "g", "-">>

RECURSIVE partial_match(_, _, _)
\* for opt_key, opt_id in options.items(): first key equal up to "-" / " "
partial_match(options, value, option_id) ==
    IF options = <<>> THEN option_id
    ELSE IF Replace(Head(options).k, "-", " ") = Replace(Lower(value), "-", " ")
         THEN IntV(Head(options).id)
         ELSE partial_match(Tail(options), value, option_id)

\* if not option_id: try partial matches
try_partial(options, value, option_id) ==
    IF ~Truthy(option_id) THEN partial_match(options, value, option_id) ELSE option_id

\* if not option_id: try without the "listing-" prefix
try_without_prefix(options, value, value_normalized, option_id) ==
    try_partial(options, value,
                IF ~Truthy(option_id) /\ StartsWith(value_normalized, sListingPrefix)
                THEN OptionsGet(options, DropFirst(value_normalized, 8))
                ELSE option_id)

\* if not option_id: try value.lower().replace(" ", "-")
try_normalized(options, value, value_normalized, option_id) ==
    try_without_prefix(options, value, value_normalized,
                       IF ~Truthy(option_id) THEN OptionsGet(options, value_normalized)
                       ELSE option_id)

\* the option ID looked up for the text `value` (falsy when none is found)
lookup_option(options, value) ==
    try_normalized(options, value, Replace(Lower(value), " ", "-"),
                   OptionsGet(options, Lower(value)))

FieldEntry(id, value) == DictV(<<Item("id", IntV(id)), Item("value", value)>>)

\* fields.append(...) without the str() conversion
append_field_unconverted(acc, field_mapping, field_value) ==
    [acc EXCEPT !.fields = Append(@, FieldEntry(field_mapping.id, field_value))]

\* fields.append(...): an int for a choice field, else the string form
append_field(acc, field_mapping, field_value) ==
    IF field_mapping.type = "choice" /\ field_value.t = "int"
    THEN [acc EXCEPT !.fields = Append(@, FieldEntry(field_mapping.id, field_value))]
    ELSE [acc EXCEPT !.fields =
            Append(@, FieldEntry(field_mapping.id, StrV(PyStr(field_value))))]

\* a choice field given text: the option ID, or the field is skipped
append_option(acc, field_mapping, option_id) ==
    IF Truthy(option_id) THEN append_field(acc, field_mapping, option_id) ELSE acc

\* the field's value added as the caller gave it, with no option lookup
process_mapped_preserving_text(acc, field_mapping, actual_field_key, value) ==
    [processed_fields |-> acc.processed_fields \cup {actual_field_key},
     fields |-> Append(acc.fields,
                       FieldEntry(field_mapping.id,
                                  IF value.t = "int" /\ field_mapping.type = "choice"
                                  THEN value ELSE StrV(PyStr(value))))]

\* the field has a mapping: mark it processed, then add its value
process_mapped(acc, field_mapping, actual_field_key, value) ==
    IF field_mapping.type = "choice" /\ field_mapping.has_options /\ value.t = "str"
    THEN append_option([acc EXCEPT !.processed_fields = @ \cup {actual_field_key}],
                       field_mapping, lookup_option(field_mapping.options, value.v))
    ELSE append_field([acc EXCEPT !.processed_fields = @ \cup {actual_field_key}],
                      field_mapping, value)

\* one iteration of `for field_key, value in all_data.items()`:
\* acc = [processed_fields, fields]
process_field(fm, acc, field_key, value) ==
    IF value.t = "none" THEN acc
    ELSE IF field_aliases(field_key) \in acc.processed_fields THEN acc
    ELSE IF ~HasField(fm, field_aliases(field_key)) THEN acc
    ELSE process_mapped(acc, FieldOf(fm, field_aliases(field_key)),
                        field_aliases(field_key), value)

RECURSIVE process_all(_, _, _)
process_all(fm, acc, all_data) ==
    IF all_data = <<>> THEN acc
    ELSE process_all(fm,
                     process_field(fm, acc, Head(all_data).k, Head(all_data).v),
                     Tail(all_data))

RECURSIVE first_team_member(_)
\* the first member of the first team that has members; 0 when there is none
first_team_member(teams) ==
    IF teams = <<>> THEN 0
    ELSE IF Head(teams) # <<>> THEN Head(Head(teams))
    ELSE first_team_member(Tail(teams))

\* PropertiesAPI._get_team_member_id; lookup = [ok, teams] is what
\* TeamsAPI.list_teams does: it raises (ok = FALSE) or returns the teams,
\* each the sequence of its members' IDs
get_team_member_id(lookup) ==
    IF lookup.ok /\ first_team_member(lookup.teams) # 0
    THEN first_team_member(lookup.teams)
    ELSE 26392

required_field_keys == <<"contract_title", "contract_client_type", "contract_status">>

field_ids_present(fields) == {Lookup(fields[i].v, "id").v : i \in 1..Len(fields)}

\* Outcome of a conversion: raised = "" and the value, or the error raised;
\* mapped / team_lookup: whether get_field_mappings / list_teams was called
Returned(value, mapped, team_lookup) ==
    [raised |-> "", value |-> value, mapped |-> mapped, team_lookup |-> team_lookup]

Raised(error, mapped, team_lookup) ==
    [raised |-> error, value |-> NoneV, mapped |-> mapped, team_lookup |-> team_lookup]

\* Required fields with defaults
required_defaults(simple_data) ==
    <<Item("contract_title",
           PyOr(Get(simple_data, "title"), Get(simple_data, "contract_title"))),
      Item("contract_client_type",
           PyOr(Get(simple_data, "client_type"),
                GetOr(simple_data, "contract_client_type", StrV(kBuyer)))),
      Item("contract_status",
           PyOr(Get(simple_data, "status"),
                GetOr(simple_data, "contract_status", StrV(kListingActive))))>>

\* the API format built without the check that required fields are present
ensure_required_unchecked(fields, fm, team_member_id, looked) ==
    Returned(DictV(<<Item("team_member_id", team_member_id),
                     Item("time_zone_id", IntV(1)),
                     Item("fields", ListV(fields))>>),
             TRUE, looked)

\* Ensure required fields are present, then build the API format
ensure_required(fields, fm, team_member_id, looked) ==
    IF \E i \in 1..Len(required_field_keys) :
          /\ HasField(fm, required_field_keys[i])
          /\ FieldOf(fm, required_field_keys[i]).id \notin field_ids_present(fields)
    THEN Raised("ValidationError", TRUE, looked)
    ELSE Returned(DictV(<<Item("team_member_id", team_member_id),
                          Item("time_zone_id", IntV(1)),
                          Item("fields", ListV(fields))>>),
                  TRUE, looked)

\* the conversion without its check for a required title
convert_without_title_check(simple_data, team_member_id, fm, lookup) ==
    ensure_required(
        process_all(fm, [processed_fields |-> {}, fields |-> <<>>],
                    Merge(simple_data, required_defaults(simple_data))).fields,
        fm,
        IF team_member_id.t = "none"
        THEN IntV(get_team_member_id(lookup)) ELSE team_member_id,
        team_member_id.t = "none")

\* fm is what get_field_mappings returned
convert_simple_to_api_format(simple_data, team_member_id, fm, lookup) ==
    IF ~Truthy(required_defaults(simple_data)[1].v)
    THEN Raised("ValidationError", TRUE, team_member_id.t = "none")
    ELSE ensure_required(
           process_all(fm, [processed_fields |-> {}, fields |-> <<>>],
                       Merge(simple_data, required_defaults(simple_data))).fields,
           fm,
           IF team_member_id.t = "none"
           THEN IntV(get_team_member_id(lookup)) ELSE team_member_id,
           team_member_id.t = "none")

-----------------------------------------------------------------------------
(* PropertiesAPI._validate_property_data, _build_api_format,                *)
(* _prepare_property_data                                                   *)

sContractTitle == <<"c", "o", "n", "t", "r", "a", "c", "t", "_", "t", "i", "t", "l", "e">>

\* not isinstance(x, str) or len(x.strip()) == 0
NotNonEmptyStr(x) == x.t # "str" \/ Strip(x.v) = <<>>

\* a field of the fields array that names the title
IsTitleEntry(field) ==
    /\ field.t = "dict"
    /\ \/ Get(field.v, "key") = StrV(sContractTitle)
       \/ Get(field.v, "id") = IntV(926565)

\* a numeric field's value is rejected: not a number, or negative
BadNumber(x) ==
    CASE x.t = "none" -> FALSE
      [] x.t = "int" -> x.v < 0
      [] x.t = "str" -> ~ParsesAsNumber(x.v) \/ ParsedNegative(x.v)
      [] OTHER -> TRUE

\* has_title looking for the title among the top-level keys only
has_title_by_key(d) ==
    HasKey(d, "contract_title") \/ HasKey(d, "field_926565")

\* has_title of _validate_property_data
has_title(d) ==
    IF HasKey(d, "contract_title") \/ HasKey(d, "field_926565") THEN TRUE
    ELSE IF HasKey(d, "fields") /\ Lookup(d, "fields").t = "list"
    THEN \E i \in 1..Len(Lookup(d, "fields").v) : IsTitleEntry(Lookup(d, "fields").v[i])
    ELSE FALSE

\* TRUE when _validate_property_data raises ValidationError
validate_property_data_raises(property_data, operation) ==
    \/ property_data.t # "dict"
    \/ property_data.v = <<>>
    \/ operation = "create" /\ ~has_title(property_data.v)
    \/ \E k \in {"contract_title", "field_926565"} :
          HasKey(property_data.v, k) /\ NotNonEmptyStr(Lookup(property_data.v, k))
    \/ \E k \in {"property_address", "property_city", "property_state", "property_zip"} :
          HasKey(property_data.v, k) /\ NotNonEmptyStr(Lookup(property_data.v, k))
    \/ \E k \in {"property_price", "sale_price", "list_price"} :
          HasKey(property_data.v, k) /\ BadNumber(Lookup(property_data.v, k))
    \/ /\ HasKey(property_data.v, "status")
       /\ NotNonEmptyStr(Lookup(property_data.v, "status"))

sBuyer == <<"B", "u", "y", "e", "r">>
sListingActive == <<"L", "i", "s", "t", "i", "n", "g", "-", " ", "A", "c", "t", "i", "v", "e">>

sActive == <<"A", "c", "t", "i", "v", "e">>

\* _build_api_format with the status "Active" whatever status it is given
build_api_format_active(title, client_type, status, team_member_id, fm, lookup) ==
    convert_simple_to_api_format(
        <<Item("contract_title", title),
          Item("contract_client_type", PyOr(client_type, StrV(sBuyer))),
          Item("contract_status", StrV(sActive))>>,
        team_member_id, fm, lookup)

\* called by _prepare_property_data with no purchase_amount
build_api_format(title, client_type, status, team_member_id, fm, lookup) ==
    LET simple_data ==
          <<Item("contract_title", title),
            Item("contract_client_type", PyOr(client_type, StrV(sBuyer))),
            Item("contract_status", PyOr(status, StrV(sListingActive)))>>
    IN  convert_simple_to_api_format(simple_data, team_member_id, fm, lookup)

\* _prepare_property_data without the branch for a dict already in API format
prepare_property_data_converting(property_data, team_member_id, fm, lookup) ==
    IF property_data.t = "str"
    THEN IF Strip(property_data.v) = <<>>
         THEN Raised("ValidationError", FALSE, FALSE)
         ELSE build_api_format(StrV(Strip(property_data.v)), StrV(sBuyer),
                               StrV(sListingActive), team_member_id, fm, lookup)
    ELSE IF property_data.t # "dict"
    THEN Raised("ValidationError", FALSE, FALSE)
    ELSE convert_simple_to_api_format(property_data.v, team_member_id, fm, lookup)

prepare_property_data(property_data, team_member_id, fm, lookup) ==
    IF property_data.t = "str"
    THEN IF Strip(property_data.v) = <<>>
         THEN Raised("ValidationError", FALSE, FALSE)
         ELSE build_api_format(StrV(Strip(property_data.v)), StrV(sBuyer),
                               StrV(sListingActive), team_member_id, fm, lookup)
    ELSE IF property_data.t # "dict"
    THEN Raised("ValidationError", FALSE, FALSE)
    ELSE IF HasKey(property_data.v, "fields") /\ HasKey(property_data.v, "team_member_id")
    THEN IF Lookup(property_data.v, "fields").t # "list"
         THEN Raised("ValidationError", FALSE, FALSE)
         ELSE Returned(property_data, FALSE, FALSE)
    ELSE convert_simple_to_api_format(property_data.v, team_member_id, fm, lookup)

-----------------------------------------------------------------------------
(* The callers' arguments *)

sHome == <<"H", "o", "m", "e">>
sHomePadded == <<" ", "H", "o", "m", "e", " ">>
sFlat == <<"F", "l", "a", "t">>
sBlank == <<" ", " ">>
sSeller == <<"S", "e", "l", "l", "e", "r">>
sOther == <<"O", "t", "h", "e", "r">>
sUnderContract == <<"U", "n", "d", "e", "r", " ", "C", "o", "n", "t", "r", "a", "c", "t">>
sUnderContractHyphen == <<"u", "n", "d", "e", "r", "-", "c", "o", "n", "t", "r", "a", "c", "t">>
sPreMls == <<"P", "r", "e", " ", "M", "L", "S">>
sListingClosed == <<"L", "i", "s", "t", "i", "n", "g", " ", "C", "l", "o", "s", "e", "d">>
sClosed == <<"C", "l", "o", "s", "e", "d">>
sCondo == <<"C", "o", "n", "d", "o">>
sTwelve == <<"1", "2">>

\* How a simple-format dict gives (or does not give) the title
TitleItems ==
    { <<>>,
      <<Item("title", StrV(sHome))>>,
      <<Item("title", StrV(<<>>))>>,
      <<Item("contract_title", StrV(sFlat))>>,
      <<Item("title", NoneV), Item("contract_title", StrV(sFlat))>> }

\* ... the client type
ClientTypeItems ==
    { <<>>,
      <<Item("client_type", StrV(sBuyer))>>,
      <<Item("client_type", StrV(sOther))>>,
      <<Item("client_type", StrV(<<>>))>>,
      <<Item("client_type", NoneV)>>,
      <<Item("client_type", IntV(797213))>>,
      <<Item("contract_client_type", StrV(sSeller))>>,
      <<Item("contract_client_type", NoneV)>>,
      <<Item("client_type", StrV(sBuyer)), Item("contract_client_type", StrV(sSeller))>>,
      <<Item("client_type", IntV(0)), Item("contract_client_type", StrV(sSeller))>> }

\* ... the status
StatusItems ==
    { <<>>,
      <<Item("status", StrV(sUnderContract))>>,
      <<Item("status", StrV(sUnderContractHyphen))>>,
      <<Item("status", StrV(sPreMls))>>,
      <<Item("status", StrV(sListingClosed))>>,
      <<Item("status", NoneV)>>,
      <<Item("contract_status", StrV(sClosed)), Item("status", StrV(sActive))>> }

TitleOnlyFields ==
    <<DictV(<<Item("id", IntV(926565)), Item("value", StrV(sHome))>>)>>

\* The other items a simple-format dict may carry
ExtraPool ==
    <<Item("purchase_amount", IntV(450000)),
      Item("property_type", StrV(sCondo)),
      Item("fields", ListV(TitleOnlyFields))>>

MaxExtras == 1

RECURSIVE Pick(_, _, _)
\* the items of pool whose index is in S, in pool order
Pick(pool, S, i) ==
    IF i > Len(pool) THEN <<>>
    ELSE (IF i \in S THEN <<pool[i]>> ELSE <<>>) \o Pick(pool, S, i + 1)

ExtraItems ==
    { Pick(ExtraPool, S, 1) :
        S \in {S \in SUBSET (1..Len(ExtraPool)) : Cardinality(S) <= MaxExtras} }

\* Dicts in the simple format: none has both "fields" and "team_member_id"
SimpleDicts ==
    { DictV(t \o c \o s \o e) :
        t \in TitleItems, c \in ClientTypeItems, s \in StatusItems, e \in ExtraItems }

\* The fields arrays of full-API-format dicts, and values that are no list
ApiFields ==
    { ListV(<<DictV(<<Item("id", IntV(926565)), Item("key", StrV(sContractTitle)),
                      Item("value", StrV(sHome))>>),
              DictV(<<Item("id", IntV(926553)), Item("value", IntV(797212))>>)>>),
      ListV(TitleOnlyFields),
      ListV(<<DictV(<<Item("key", StrV(sContractTitle)), Item("value", StrV(sHome))>>)>>),
      ListV(<<DictV(<<Item("id", IntV(926553)), Item("value", IntV(797212))>>)>>),
      ListV(<<StrV(sHome)>>),
      ListV(<<>>),
      StrV(sHome),
      NoneV }

\* Other top-level items of a full-API-format dict
ApiExtraItems ==
    { <<>>,
      <<Item("time_zone_id", IntV(1))>>,
      <<Item("status", StrV(sClosed))>>,
      <<Item("status", StrV(sBlank))>>,
      <<Item("contract_title", StrV(sFlat))>>,
      <<Item("field_926565", IntV(7))>>,
      <<Item("property_city", StrV(<<>>))>>,
      <<Item("property_price", StrV(sTwelve))>>,
      <<Item("sale_price", IntV(0 - 1))>>,
      <<Item("list_price", StrV(sOther))>> }

ApiDicts ==
    { DictV(<<Item("team_member_id", tm)>> \o x \o <<Item("fields", f)>>) :
        tm \in {IntV(26392), NoneV}, x \in ApiExtraItems, f \in ApiFields }

Titles == { StrV(sHome), StrV(sHomePadded), StrV(sBlank), StrV(<<>>) }

\* property_data of create_property
PropertyData == SimpleDicts \cup ApiDicts \cup Titles \cup {IntV(5), NoneV}

\* team_member_id of create_property
TeamMemberIds == {NoneV, IntV(5)}

NoLookup == [ok |-> FALSE, teams |-> <<>>]

\* What TeamsAPI.list_teams does when the team member is looked up
TeamLookups ==
    { NoLookup,
      [ok |-> TRUE, teams |-> <<>>],
      [ok |-> TRUE, teams |-> << <<>>, <<7, 8>> >>] }

\* Keyword arguments of a create_property call besides the two it declares
KeywordArgs ==
    { <<>>,
      <<Item("preserve_text_values", BoolV(TRUE))>>,
      <<Item("preserve_text_values", BoolV(FALSE))>> }

-----------------------------------------------------------------------------
(* State                                                                    *)
(*  field_mappings  the table a PropertiesAPI instance has cached, as an    *)
(*                  index into Tables; 0 is None                            *)
(*  server_fields   the table the API's field definitions give at present   *)
(*  last            the call in progress or just made, and what it did:     *)
(*                  its arguments, what list_teams did (lookup), the table  *)
(*                  it saw, its outcome, the value the conversion returned, *)
(*                  the bodies POSTed, the value returned, and the requests *)
(*                  counted                                                 *)
(*  http            the same for a call on a BaseClient of open_to_close_api *)
(*  client          an OpenToCloseAPI object: how it was constructed, the   *)
(*                  service clients it holds and the last accessor read     *)

Idle ==
    [op |-> "idle", property_data |-> NoneV, team_member_id |-> NoneV,
     kwargs |-> <<>>, lookup |-> NoLookup, table |-> 0, outcome |-> "",
     converted |-> <<>>, posted |-> <<>>, put |-> <<>>, result |-> <<>>,
     fetches |-> 0, team_lookups |-> 0, property_id |-> NoneV]

TypeOK ==
    /\ field_mappings \in 0..Len(Tables)
    /\ server_fields \in 1..Len(Tables)
    /\ last.op \in {"idle", "create_property", "get_field_mappings",
                    "refresh_field_mappings", "list_available_fields",
                    "validate_property_data", "update_property"}
    /\ last.table \in 0..Len(Tables)
    /\ last.fetches \in 0..1
    /\ last.team_lookups \in 0..1
    /\ Len(last.posted) <= 1
    /\ Len(last.converted) <= 1
    /\ Len(last.put) <= 1

\* The accessors of OpenToCloseAPI
Accessors ==
    {"agents", "contacts", "properties", "property_contacts",
     "property_documents", "property_emails", "property_notes",
     "property_tasks", "tags", "teams", "users"}

\* the two packages that define OpenToCloseAPI
Packages == {"open_to_close", "open_to_close_api"}

\* No OpenToCloseAPI object yet.  Of an object: api_key is TRUE when the
\* constructor got an api_key argument, env when OPEN_TO_CLOSE_API_KEY is set,
\* outcome what the constructor did; services[a] is the instance self._a holds
\* (0 for None, else the number of the construction that made it), built[a]
\* the number of times the service class was constructed, access the last
\* accessor read.
NoClient ==
    [package |-> "none", api_key |-> FALSE, env |-> FALSE, outcome |-> "",
     services |-> [a \in Accessors |-> 0],
     built |-> [a \in Accessors |-> 0],
     access |-> [name |-> "", got |-> 0, outcome |-> "", constructed |-> FALSE]]

HttpIdle ==
    [op |-> "idle", sent |-> <<>>, transport_ok |-> TRUE, status_code |-> 0,
     body |-> [kind |-> "empty", json |-> NoneV, text |-> <<>>],
     outcome |-> "", error_status |-> 0, value |-> NoneV]

Init ==
    /\ field_mappings = 0
    /\ server_fields \in 1..Len(Tables)
    /\ last = Idle
    /\ http = HttpIdle
    /\ client = NoClient

\* BaseClient.get_field_mappings of the open_to_close package: the cached table,
\* or one request for the field definitions, cached when it succeeds.
\* fetch is "" when that request succeeds, else the typed error it raises.
get_field_mappings(cached, fetch) ==
    IF cached # 0
    THEN [raised |-> "", table |-> cached, cache |-> cached, fetches |-> 0]
    ELSE IF fetch = ""
    THEN [raised |-> "", table |-> server_fields, cache |-> server_fields, fetches |-> 1]
    ELSE [raised |-> fetch, table |-> 0, cache |-> 0, fetches |-> 1]

\* BaseClient.refresh_field_mappings: a fresh fetch that replaces the cache
refresh_field_mappings(cached, fetch) ==
    IF fetch = ""
    THEN [raised |-> "", table |-> server_fields, cache |-> server_fields, fetches |-> 1]
    ELSE [raised |-> fetch, table |-> 0, cache |-> cached, fetches |-> 1]

\* a conversion that fetches the field definitions on every call
refetched_field_mappings(cached) == refresh_field_mappings(cached, "")

\* PropertiesAPI._get_field_mappings: return self.get_field_mappings()
PropertiesAPI_get_field_mappings(cached) == get_field_mappings(cached, "")

RequestErrors ==
    {"ValidationError", "AuthenticationError", "NotFoundError", "RateLimitError",
     "ServerError", "NetworkError", "OpenToCloseAPIError"}

\* client.properties.get_field_mappings()
GetFieldMappings(fetch) ==
    /\ last.op = "idle"
    /\ fetch # "" => field_mappings = 0
    /\ LET got == get_field_mappings(field_mappings, fetch)
       IN  /\ field_mappings' = got.cache
           /\ last' = [Idle EXCEPT !.op = "get_field_mappings",
                                   !.table = got.table,
                                   !.outcome = IF got.raised = "" THEN "returned"
                                               ELSE got.raised,
                                   !.fetches = got.fetches]
    /\ UNCHANGED <<server_fields, http, client>>

\* client.properties.refresh_field_mappings()
RefreshFieldMappings(fetch) ==
    /\ last.op = "idle"
    /\ LET got == refresh_field_mappings(field_mappings, fetch)
       IN  /\ field_mappings' = got.cache
           /\ last' = [Idle EXCEPT !.op = "refresh_field_mappings",
                                   !.table = got.table,
                                   !.outcome = IF got.raised = "" THEN "returned"
                                               ELSE got.raised,
                                   !.fetches = got.fetches]
    /\ UNCHANGED <<server_fields, http, client>>

\* What create_property does with arguments the signature binds: the outcome,
\* the bodies POSTed, and the conversion's calls.  post is "" when the POST
\* succeeds, else the typed error self.post raises.
validate_and_post(api_data, post) ==
    IF api_data.raised # ""
    THEN [outcome |-> api_data.raised, posted |-> <<>>, conv |-> api_data]
    ELSE IF validate_property_data_raises(api_data.value, "create")
    THEN [outcome |-> "ValidationError", posted |-> <<>>, conv |-> api_data]
    ELSE [outcome |-> IF post = "" THEN "returned" ELSE post,
          posted |-> <<api_data.value>>, conv |-> api_data]

create_property(property_data, team_member_id, fm, lookup, post) ==
    validate_and_post(
        prepare_property_data(property_data, team_member_id, fm, lookup), post)

\* The state after a create_property call: got is what get_field_mappings
\* gives (used when the conversion calls it), did what the call did
Created(property_data, team_member_id, lookup, got, did) ==
    /\ field_mappings' = IF did.conv.mapped THEN got.cache ELSE field_mappings
    /\ last' = [Idle EXCEPT
         !.op = "create_property",
         !.property_data = property_data,
         !.team_member_id = team_member_id,
         !.lookup = lookup,
         !.table = IF did.conv.mapped THEN got.table ELSE 0,
         !.outcome = did.outcome,
         !.converted = IF did.conv.mapped /\ did.conv.raised = ""
                       THEN <<did.conv.value>> ELSE <<>>,
         !.posted = did.posted,
         !.fetches = IF did.conv.mapped THEN got.fetches ELSE 0,
         !.team_lookups = IF did.conv.team_lookup THEN 1 ELSE 0]

\* client.properties.create_property(property_data, team_member_id), for the
\* calls in which the field definitions are cached or their request succeeds
CreateProperty(property_data, team_member_id, lookup, post) ==
    /\ last.op = "idle"
    /\ team_member_id.t # "none" => lookup = NoLookup
    /\ Created(property_data, team_member_id, lookup,
               PropertiesAPI_get_field_mappings(field_mappings),
               create_property(property_data, team_member_id,
                               Tables[PropertiesAPI_get_field_mappings(field_mappings).table],
                               lookup, post))
    /\ UNCHANGED <<server_fields, http, client>>

\* client.properties.create_property(property_data, team_member_id, **kwargs)
\* with a keyword the signature does not declare:
\* def create_property(self, property_data, team_member_id=None)
CreatePropertyKeywords(property_data, team_member_id, kwargs) ==
    /\ last.op = "idle"
    /\ kwargs # <<>>
    /\ last' = [Idle EXCEPT !.op = "create_property",
                            !.property_data = property_data,
                            !.team_member_id = team_member_id,
                            !.kwargs = kwargs,
                            !.outcome = "TypeError"]
    /\ UNCHANGED <<field_mappings, server_fields, http, client>>

\* property_id of update_property
PropertyIds == {IntV(123), IntV(0), NoneV}

\* BaseClient._validate_resource_id raises ValidationError: the ID "must be a
\* positive integer"
validate_resource_id_raises(resource_id) ==
    resource_id.t # "int" \/ resource_id.v <= 0

\* What update_property does: the outcome and the bodies PUT.  put is "" when
\* the PUT succeeds, else the typed error self.put raises.
update_property(property_id, property_data, put) ==
    IF validate_resource_id_raises(property_id)
    THEN [outcome |-> "ValidationError", put |-> <<>>]
    ELSE IF validate_property_data_raises(property_data, "update")
    THEN [outcome |-> "ValidationError", put |-> <<>>]
    ELSE [outcome |-> IF put = "" THEN "returned" ELSE put,
          put |-> <<property_data>>]

\* the state after update_property did what `did` says
Updated(property_id, property_data, did) ==
    last' = [Idle EXCEPT !.op = "update_property",
                         !.property_id = property_id,
                         !.property_data = property_data,
                         !.outcome = did.outcome,
                         !.put = did.put]

\* client.properties.update_property(property_id, property_data)
UpdateProperty(property_id, property_data, put) ==
    /\ last.op = "idle"
    /\ Updated(property_id, property_data,
               update_property(property_id, property_data, put))
    /\ UNCHANGED <<field_mappings, server_fields, http, client>>

-----------------------------------------------------------------------------
(* OpenToCloseAPI.list_available_fields and validate_property_data *)

\* Characters in code-point order, the order sorted() compares strings by
CodePoints == <<" ", "-">> \o Digits \o UpperLetters \o <<"_">> \o LowerLetters

Ord(c) == CHOOSE i \in 1..Len(CodePoints) : CodePoints[i] = c

RECURSIVE StrLess(_, _)
\* a < b for strings
StrLess(a, b) ==
    IF b = <<>> THEN FALSE
    ELSE IF a = <<>> THEN TRUE
    ELSE IF Head(a) = Head(b) THEN StrLess(Tail(a), Tail(b))
    ELSE Ord(Head(a)) < Ord(Head(b))

RECURSIVE SortedStrings(_)
\* sorted(S) for a set S of strings
SortedStrings(S) ==
    IF S = {} THEN <<>>
    ELSE <<CHOOSE x \in S : \A y \in S \ {x} : StrLess(x, y)>>
         \o SortedStrings(S \ {CHOOSE x \in S : \A y \in S \ {x} : StrLess(x, y)})

\* the characters of a field key
key_text(key) ==
    CASE key = "contract_title" ->
           <<"c", "o", "n", "t", "r", "a", "c", "t", "_", "t", "i", "t", "l", "e">>
      [] key = "contract_client_type" ->
           <<"c", "o", "n", "t", "r", "a", "c", "t", "_", "c", "l", "i", "e", "n", "t", "_", "t", "y", "p", "e">>
      [] key = "contract_status" ->
           <<"c", "o", "n", "t", "r", "a", "c", "t", "_", "s", "t", "a", "t", "u", "s">>
      [] key = "purchase_amount" ->
           <<"p", "u", "r", "c", "h", "a", "s", "e", "_", "a", "m", "o", "u", "n", "t">>
      [] key = "property_type" ->
           <<"p", "r", "o", "p", "e", "r", "t", "y", "_", "t", "y", "p", "e">>

sListing == <<"l", "i", "s", "t", "i", "n", "g">>

\* sorted(set(k for k in options.keys() if "-" not in k or k.startswith("listing")))
display_options(options) ==
    SortedStrings({ options[i].k : i \in
        { j \in 1..Len(options) :
            \/ \A n \in 1..Len(options[j].k) : options[j].k[n] # "-"
            \/ StartsWith(options[j].k, sListing) } })

\* required_fields of validate_property_data, in dict order
required_fields ==
    <<[key |-> "contract_title", aliases |-> <<"title", "contract_title">>],
      [key |-> "contract_client_type",
       aliases |-> <<"client_type", "contract_client_type">>],
      [key |-> "contract_status", aliases |-> <<"status", "contract_status">>]>>

\* field_info of one mapping (the mapping's optional "title" is left out)
field_info(mapping) ==
    [name |-> mapping.key, id |-> mapping.id, type |-> mapping.type,
     required |-> \E i \in 1..Len(required_fields) :
                     required_fields[i].key = mapping.key,
     has_options |-> mapping.has_options,
     options |-> IF mapping.has_options THEN display_options(mapping.options)
                 ELSE <<>>]

\* the sort key (not x["required"], x["name"])
InfoBefore(a, b) ==
    IF a.required # b.required THEN a.required
    ELSE StrLess(key_text(a.name), key_text(b.name))

RECURSIVE SortedInfos(_)
SortedInfos(S) ==
    IF S = {} THEN <<>>
    ELSE <<CHOOSE x \in S : \A y \in S \ {x} : InfoBefore(x, y)>>
         \o SortedInfos(S \ {CHOOSE x \in S : \A y \in S \ {x} : InfoBefore(x, y)})

\* what list_available_fields returns for the mapping table fm
list_available_fields(fm) ==
    SortedInfos({ field_info(fm[i]) : i \in 1..Len(fm) })

FieldError(error, key, value, options) ==
    [error |-> error, key |-> key, value |-> value, options |-> options]

\* no alias of the required field is in property_data with a truthy value
NotFound(d, required) ==
    ~\E j \in 1..Len(required.aliases) :
        HasKey(d, required.aliases[j]) /\ Truthy(Lookup(d, required.aliases[j]))

RECURSIVE missing_errors(_, _)
\* Check required fields
missing_errors(d, i) ==
    IF i > Len(required_fields) THEN <<>>
    ELSE (IF NotFound(d, required_fields[i])
          THEN <<FieldError("Missing required field", required_fields[i].key,
                            NoneV, <<>>)>>
          ELSE <<>>) \o missing_errors(d, i + 1)

\* key is an alias of some required field
IsAlias(key) ==
    \E i \in 1..Len(required_fields) :
        \E j \in 1..Len(required_fields[i].aliases) :
            required_fields[i].aliases[j] = key

\* the required field (the first in dict order) that key is an alias of
AliasOf(key) ==
    required_fields[CHOOSE i \in 1..Len(required_fields) :
        /\ \E j \in 1..Len(required_fields[i].aliases) :
              required_fields[i].aliases[j] = key
        /\ \A h \in 1..(i - 1) : \A j \in 1..Len(required_fields[h].aliases) :
              required_fields[h].aliases[j] # key].key

\* choice_errors comparing the value as given, not lowercased
choice_errors_exact(fm, key, value) ==
    IF ~HasField(fm, key) THEN <<>>
    ELSE IF /\ FieldOf(fm, key).type = "choice"
            /\ FieldOf(fm, key).has_options
            /\ value.t = "str"
            /\ ~\E i \in 1..Len(FieldOf(fm, key).options) :
                  FieldOf(fm, key).options[i].k = value.v
    THEN <<FieldError("Invalid value", key, value,
                      display_options(FieldOf(fm, key).options))>>
    ELSE <<>>

\* Validate choice fields
choice_errors(fm, key, value) ==
    IF ~HasField(fm, key) THEN <<>>
    ELSE IF /\ FieldOf(fm, key).type = "choice"
            /\ FieldOf(fm, key).has_options
            /\ value.t = "str"
            /\ ~\E i \in 1..Len(FieldOf(fm, key).options) :
                  FieldOf(fm, key).options[i].k = Lower(value.v)
    THEN <<FieldError("Invalid value", key, value,
                      display_options(FieldOf(fm, key).options))>>
    ELSE <<>>

\* one iteration of `for key, value in property_data.items()`
value_errors(fm, key, value) ==
    IF HasField(fm, key) THEN choice_errors(fm, key, value)
    ELSE IF IsAlias(key) THEN choice_errors(fm, AliasOf(key), value)
    ELSE <<FieldError("Unknown field", key, NoneV, <<>>)>>

RECURSIVE all_value_errors(_, _)
all_value_errors(fm, d) ==
    IF d = <<>> THEN <<>>
    ELSE value_errors(fm, Head(d).k, Head(d).v) \o all_value_errors(fm, Tail(d))

Validated(errors) == [is_valid |-> errors = <<>>, errors |-> errors]

\* what validate_property_data returns for a dict and the mapping table fm
validate_property_data(property_data, fm) ==
    Validated(missing_errors(property_data.v, 1)
              \o all_value_errors(fm, property_data.v))

\* The state after a call that only reads the mapping table
Read(op, property_data, got, result) ==
    /\ field_mappings' = got.cache
    /\ last' = [Idle EXCEPT !.op = op,
                            !.property_data = property_data,
                            !.table = got.table,
                            !.outcome = IF got.raised = "" THEN "returned"
                                        ELSE got.raised,
                            !.result = result,
                            !.fetches = got.fetches]

\* client.list_available_fields()
ListAvailableFields(fetch) ==
    /\ last.op = "idle"
    /\ fetch # "" => field_mappings = 0
    /\ Read("list_available_fields", NoneV,
            get_field_mappings(field_mappings, fetch),
            IF get_field_mappings(field_mappings, fetch).raised = ""
            THEN list_available_fields(
                     Tables[get_field_mappings(field_mappings, fetch).table])
            ELSE <<>>)
    /\ UNCHANGED <<server_fields, http, client>>

\* client.validate_property_data(property_data), for a dict
ValidatePropertyData(property_data, fetch) ==
    /\ last.op = "idle"
    /\ property_data.t = "dict"
    /\ fetch # "" => field_mappings = 0
    /\ Read("validate_property_data", property_data,
            get_field_mappings(field_mappings, fetch),
            IF get_field_mappings(field_mappings, fetch).raised = ""
            THEN validate_property_data(property_data,
                     Tables[get_field_mappings(field_mappings, fetch).table])
            ELSE <<>>)
    /\ UNCHANGED <<server_fields, http, client>>

\* The API's field definitions change
ServerFieldsChange ==
    /\ last.op = "idle"
    /\ server_fields' \in (1..Len(Tables)) \ {server_fields}
    /\ UNCHANGED <<field_mappings, last, http, client>>

\* The caller takes the result; the instance is ready for the next call
Return ==
    /\ last.op # "idle"
    /\ last' = Idle
    /\ UNCHANGED <<field_mappings, server_fields, http, client>>

\* The calls a caller that is in no call may make
AnyCreateProperty ==
    /\ last.op = "idle"
    /\ \E pd \in PropertyData, tm \in TeamMemberIds, lookup \in TeamLookups,
          post \in {"", "ServerError"} :
          CreateProperty(pd, tm, lookup, post)

AnyCreatePropertyKeywords ==
    /\ last.op = "idle"
    /\ \E pd \in PropertyData, tm \in TeamMemberIds, kw \in KeywordArgs :
          CreatePropertyKeywords(pd, tm, kw)

AnyGetFieldMappings ==
    /\ last.op = "idle"
    /\ \E fetch \in {""} \cup RequestErrors : GetFieldMappings(fetch)

AnyRefreshFieldMappings ==
    /\ last.op = "idle"
    /\ \E fetch \in {""} \cup RequestErrors : RefreshFieldMappings(fetch)

AnyListAvailableFields ==
    /\ last.op = "idle"
    /\ \E fetch \in {""} \cup RequestErrors : ListAvailableFields(fetch)

AnyValidatePropertyData ==
    /\ last.op = "idle"
    /\ \E pd \in SimpleDicts, fetch \in {""} \cup RequestErrors :
          ValidatePropertyData(pd, fetch)

AnyUpdateProperty ==
    /\ last.op = "idle"
    /\ \E id \in PropertyIds, pd \in PropertyData, put \in {"", "NotFoundError"} :
          UpdateProperty(id, pd, put)

\* One create_property or update_property call on a new PropertiesAPI instance
Next ==
    \/ AnyCreateProperty
    \/ AnyCreatePropertyKeywords
    \/ AnyUpdateProperty

Spec == Init /\ [][Next]_vars

\* property_data of the calls made in a sequence of calls
CachePropertyData == Titles \cup ApiDicts

CacheCreateProperty ==
    /\ last.op = "idle"
    /\ \E pd \in CachePropertyData, tm \in TeamMemberIds, lookup \in TeamLookups,
          post \in {"", "ServerError"} :
          CreateProperty(pd, tm, lookup, post)

\* Calls in any order on one instance, while the API's field definitions change
NextCache ==
    \/ AnyGetFieldMappings
    \/ AnyRefreshFieldMappings
    \/ CacheCreateProperty
    \/ AnyListAvailableFields
    \/ AnyValidatePropertyData
    \/ ServerFieldsChange
    \/ Return

SpecCache == Init /\ [][NextCache]_vars

-----------------------------------------------------------------------------
(* BaseClient of open_to_close_api: _handle_response, _request and the verbs *)

sNotFound == <<"n", "o", "t", " ", "f", "o", "u", "n", "d">>
sGateway == <<"B", "a", "d", " ", "g", "a", "t", "e", "w", "a", "y">>

\* Response bodies: no content, JSON of several shapes, text that is no JSON
Bodies ==
    { [kind |-> "empty", json |-> NoneV, text |-> <<>>],
      [kind |-> "json", json |-> DictV(<<Item("message", StrV(sNotFound))>>), text |-> <<>>],
      [kind |-> "json", json |-> DictV(<<Item("id", IntV(1))>>), text |-> <<>>],
      [kind |-> "json", json |-> ListV(<<>>), text |-> <<>>],
      [kind |-> "json", json |-> NoneV, text |-> <<>>],
      [kind |-> "text", json |-> NoneV, text |-> sGateway] }

MinStatus == 100
MaxStatus == 600

StatusCodes == MinStatus..MaxStatus

\* response.json() if response.content else {}; {"message": response.text}
\* when the content is no JSON
response_data(body) ==
    CASE body.kind = "empty" -> DictV(<<>>)
      [] body.kind = "json" -> body.json
      [] OTHER -> DictV(<<Item("message", StrV(body.text))>>)

HttpReturn(value) == [outcome |-> "returned", error_status |-> 0, value |-> value]

\* an error raised with status_code = status (0: no status_code attribute)
HttpRaise(error, status) == [outcome |-> error, error_status |-> status, value |-> NoneV]

\* raise error(f"...{response_data.get('message', ...)}", status_code=status, ...):
\* the message is built first, and only a dict has .get
raise_with_message(error, status, data) ==
    IF data.t = "dict" THEN HttpRaise(error, status) ELSE HttpRaise("AttributeError", 0)

handle_response(status_code, body) ==
    LET data == response_data(body)
    IN  IF status_code \in {200, 201} THEN HttpReturn(data)
        ELSE IF status_code = 204 THEN HttpReturn(DictV(<<>>))
        ELSE IF status_code = 400 THEN raise_with_message("ValidationError", 400, data)
        ELSE IF status_code = 401 THEN raise_with_message("AuthenticationError", 401, data)
        ELSE IF status_code = 404 THEN raise_with_message("NotFoundError", 404, data)
        ELSE IF status_code = 429 THEN raise_with_message("RateLimitError", 429, data)
        ELSE IF 500 <= status_code /\ status_code < 600
             THEN raise_with_message("ServerError", status_code, data)
        ELSE raise_with_message("OpenToCloseAPIError", status_code, data)

\* _request sending the request again when the first attempt fails
request_with_retry(method, transport_ok, status_code, body) ==
    IF transport_ok /\ handle_response(status_code, body).outcome = "returned"
    THEN [sent |-> <<method>>, result |-> handle_response(status_code, body)]
    ELSE IF transport_ok
    THEN [sent |-> <<method, method>>, result |-> handle_response(status_code, body)]
    ELSE [sent |-> <<method, method>>, result |-> HttpRaise("NetworkError", 0)]

\* BaseClient._request: the requests sent and the outcome.  transport_ok is
\* FALSE when session.request raises a RequestException.
request(method, transport_ok, status_code, body) ==
    IF transport_ok
    THEN [sent |-> <<method>>, result |-> handle_response(status_code, body)]
    ELSE [sent |-> <<method>>, result |-> HttpRaise("NetworkError", 0)]

\* get, post, put, delete, patch
method_of(verb) ==
    CASE verb = "get" -> "GET"
      [] verb = "post" -> "POST"
      [] verb = "put" -> "PUT"
      [] verb = "delete" -> "DELETE"
      [] verb = "patch" -> "PATCH"

Verbs == {"get", "post", "put", "delete", "patch"}

\* client.get(...), client.post(...), ...: the API answers status_code and
\* body, or the transport fails
HttpCall(verb, transport_ok, status_code, body) ==
    /\ http.op = "idle"
    /\ ~transport_ok => (status_code = MinStatus /\ body.kind = "empty")
    /\ LET did == request(method_of(verb), transport_ok, status_code, body)
       IN  http' = [op |-> verb, sent |-> did.sent, transport_ok |-> transport_ok,
                    status_code |-> status_code, body |-> body,
                    outcome |-> did.result.outcome,
                    error_status |-> did.result.error_status,
                    value |-> did.result.value]
    /\ UNCHANGED <<field_mappings, server_fields, last, client>>

HttpDone ==
    /\ http.op # "idle"
    /\ http' = HttpIdle
    /\ UNCHANGED <<field_mappings, server_fields, last, client>>

AnyHttpCall ==
    /\ http.op = "idle"
    /\ \E verb \in Verbs, ok \in BOOLEAN, status \in StatusCodes, body \in Bodies :
          HttpCall(verb, ok, status, body)

NextHttp == AnyHttpCall \/ HttpDone

SpecHttp == Init /\ [][NextHttp]_vars

-----------------------------------------------------------------------------
(* OpenToCloseAPI: construction and the lazily built service clients *)

MaxConstructions == 2

\* BaseClient.__init__, which every service client runs: the API key is the
\* argument or else the environment variable, and one of them is required
base_client_init(api_key, env) ==
    IF api_key \/ env THEN "returned" ELSE "AuthenticationError"

\* OpenToCloseAPI.__init__: open_to_close stores its arguments; open_to_close_api
\* also resolves the key and raises ValueError without one
client_init(package, api_key, env) ==
    IF package = "open_to_close_api" /\ ~(api_key \/ env)
    THEN "ValueError"
    ELSE "returned"

\* an accessor that builds its service client on every read
accessor_rebuilding(c, name) ==
    IF base_client_init(c.api_key, c.env) # "returned"
    THEN [c EXCEPT !.access = [name |-> name, got |-> 0, constructed |-> FALSE,
                               outcome |-> base_client_init(c.api_key, c.env)]]
    ELSE [c EXCEPT !.services[name] = c.built[name] + 1,
                   !.built[name] = c.built[name] + 1,
                   !.access = [name |-> name, got |-> c.built[name] + 1,
                               constructed |-> TRUE, outcome |-> "returned"]]

\* One read of client.<name>: the service client is built when self._<name>
\* is None, with the arguments the OpenToCloseAPI object got
accessor(c, name) ==
    IF c.services[name] # 0
    THEN [c EXCEPT !.access = [name |-> name, got |-> c.services[name],
                               constructed |-> FALSE, outcome |-> "returned"]]
    ELSE IF base_client_init(c.api_key, c.env) # "returned"
    THEN [c EXCEPT !.access = [name |-> name, got |-> 0, constructed |-> FALSE,
                               outcome |-> base_client_init(c.api_key, c.env)]]
    ELSE [c EXCEPT !.services[name] = c.built[name] + 1,
                   !.built[name] = c.built[name] + 1,
                   !.access = [name |-> name, got |-> c.built[name] + 1,
                               constructed |-> TRUE, outcome |-> "returned"]]

\* client = OpenToCloseAPI(api_key) with the environment as env says
Construct(package, api_key, env) ==
    /\ client.package = "none"
    /\ client' = [NoClient EXCEPT !.package = package, !.api_key = api_key,
                                  !.env = env,
                                  !.outcome = client_init(package, api_key, env)]
    /\ UNCHANGED <<field_mappings, server_fields, last, http>>

\* client.<name>
Access(name) ==
    /\ client.outcome = "returned"
    /\ client.built[name] < MaxConstructions
    /\ client' = accessor(client, name)
    /\ UNCHANGED <<field_mappings, server_fields, last, http>>

AnyConstruct ==
    /\ client.package = "none"
    /\ \E package \in Packages, api_key \in BOOLEAN, env \in BOOLEAN :
          Construct(package, api_key, env)

AnyAccess ==
    /\ client.outcome = "returned"
    /\ \E name \in Accessors : Access(name)

\* One OpenToCloseAPI object and any sequence of reads of its accessors
NextClient == AnyConstruct \/ AnyAccess

\* the client's own state does not depend on the field definitions
InitClient == Init /\ server_fields = 1

SpecClient == InitClient /\ [][NextClient]_vars

-----------------------------------------------------------------------------
(* Properties of create_property, checked under Spec *)

\* a create_property call with the arguments its signature declares was made
Called == last.op = "create_property" /\ last.kwargs = <<>>

Posted == Len(last.posted) = 1

\* the dict is taken as full API format by _prepare_property_data
IsApiFormat(pd) ==
    pd.t = "dict" /\ HasKey(pd.v, "fields") /\ HasKey(pd.v, "team_member_id")

IsSimpleFormat(pd) == pd.t = "dict" /\ ~IsApiFormat(pd)

\* the mapping table the call saw
Table == Tables[last.table]

\* the fields array of the request body
BodyFields == Lookup(last.posted[1].v, "fields").v

HasEntry(fields, id, value) ==
    \E i \in 1..Len(fields) : fields[i] = FieldEntry(id, value)

IsChoice(field) == field.type = "choice" /\ field.has_options

\* x is text equal, ignoring case, to the name of an option of the field
MatchesOption(field, x) ==
    x.t = "str" /\ \E j \in 1..Len(field.options) : field.options[j].k = Lower(x.v)

OptionId(field, x) ==
    field.options[CHOOSE j \in 1..Len(field.options) :
                     field.options[j].k = Lower(x.v)].id

\* the short alias of a field key
AliasFor(key) ==
    CASE key = "contract_title" -> "title"
      [] key = "contract_client_type" -> "client_type"
      [] key = "contract_status" -> "status"
      [] OTHER -> key

\* the value given under the field's alias, or under its own key when the
\* alias is absent or None
GivenValue(d, key) ==
    IF HasKey(d, AliasFor(key)) /\ Lookup(d, AliasFor(key)).t # "none"
    THEN Lookup(d, AliasFor(key))
    ELSE Get(d, key)

\* C1 as stated: whenever a simple-format dict is POSTed, every text given for
\* a choice field (under the field's key or its alias) that names an option of
\* the field appears in the body as that field's ID with that option's ID.
C1_EveryGivenTextIsSent ==
    (Called /\ IsSimpleFormat(last.property_data) /\ Posted) =>
        \A i \in 1..Len(last.property_data.v) :
            (/\ HasField(Table, field_aliases(last.property_data.v[i].k))
             /\ IsChoice(FieldOf(Table, field_aliases(last.property_data.v[i].k)))
             /\ MatchesOption(FieldOf(Table, field_aliases(last.property_data.v[i].k)),
                              last.property_data.v[i].v))
            => HasEntry(BodyFields,
                        FieldOf(Table, field_aliases(last.property_data.v[i].k)).id,
                        IntV(OptionId(FieldOf(Table,
                                              field_aliases(last.property_data.v[i].k)),
                                      last.property_data.v[i].v)))

\* C1, amended: whenever a simple-format dict is POSTed, for every choice field
\* of the mapping table, if the text given under the field's alias (or under
\* its own key when the alias is absent or None) names an option of the field,
\* the body holds that field's ID with that option's ID, an integer.
C1_ChoiceTextBecomesOptionId ==
    (Called /\ IsSimpleFormat(last.property_data) /\ Posted) =>
        \A i \in 1..Len(Table) :
            (/\ IsChoice(Table[i])
             /\ MatchesOption(Table[i], GivenValue(last.property_data.v, Table[i].key)))
            => HasEntry(BodyFields, Table[i].id,
                        IntV(OptionId(Table[i],
                                      GivenValue(last.property_data.v, Table[i].key))))

\* C1's case: "Buyer" and "Under Contract" are sent as 797212 and 797207
C1_Witness ==
    /\ Called /\ Posted /\ last.table = 1
    /\ IsSimpleFormat(last.property_data)
    /\ Get(last.property_data.v, "client_type") = StrV(sBuyer)
    /\ Get(last.property_data.v, "status") = StrV(sUnderContract)
    /\ HasEntry(BodyFields, 926553, IntV(797212))
    /\ HasEntry(BodyFields, 926552, IntV(797207))

\* C2: a call with preserve_text_values=True and a dict that gives a title and
\* the client type as text sends a body whose fields hold that same text.
C2_PreserveTextValues ==
    (/\ last.op = "create_property"
     /\ last.kwargs = <<Item("preserve_text_values", BoolV(TRUE))>>
     /\ IsSimpleFormat(last.property_data)
     /\ Get(last.property_data.v, "title") = StrV(sHome)
     /\ Get(last.property_data.v, "client_type") = StrV(sBuyer))
    => /\ Posted
       /\ \E i \in 1..Len(BodyFields) :
             Get(BodyFields[i].v, "value") = StrV(sBuyer)

\* the conversion returned a value
Converted == Called /\ last.converted # <<>>

ConvertedFields == Lookup(last.converted[1].v, "fields").v

\* the field of the table with this ID
FieldWithId(fm, id) == fm[CHOOSE j \in 1..Len(fm) : fm[j].id = id]

\* the values the caller gave for a field: under its key or alias in a dict,
\* or the stripped title when property_data is a string
CallerValues(pd, key) ==
    IF pd.t = "str"
    THEN IF key = "contract_title" THEN {StrV(Strip(pd.v))} ELSE {}
    ELSE { pd.v[i].v : i \in { j \in 1..Len(pd.v) : field_aliases(pd.v[j].k) = key } }

\* the returned value is {team_member_id, time_zone_id: 1, fields: [{id, value}]}
\* with every id a field ID of the table
C6_Shape ==
    /\ last.converted[1].t = "dict"
    /\ Len(last.converted[1].v) = 3
    /\ { last.converted[1].v[i].k : i \in 1..3 }
          = {"team_member_id", "time_zone_id", "fields"}
    /\ Lookup(last.converted[1].v, "time_zone_id") = IntV(1)
    /\ Lookup(last.converted[1].v, "fields").t = "list"
    /\ \A i \in 1..Len(ConvertedFields) :
          /\ ConvertedFields[i].t = "dict"
          /\ Len(ConvertedFields[i].v) = 2
          /\ { ConvertedFields[i].v[j].k : j \in 1..2 } = {"id", "value"}
          /\ \E j \in 1..Len(Table) :
                Lookup(ConvertedFields[i].v, "id") = IntV(Table[j].id)

\* the value of a field that is no choice field is the string form of a value
\* the caller gave for it
C6_NonChoiceIsString ==
    \A i \in 1..Len(ConvertedFields) :
        FieldWithId(Table, Lookup(ConvertedFields[i].v, "id").v).type # "choice"
        => \E c \in CallerValues(last.property_data,
                     FieldWithId(Table, Lookup(ConvertedFields[i].v, "id").v).key) :
              /\ c.t \in {"str", "int"}
              /\ Lookup(ConvertedFields[i].v, "value") = StrV(PyStr(c))

IsOptionIdOf(field, x) ==
    \E j \in 1..Len(field.options) : field.options[j].id = x.v

\* C6 as stated: the returned value has the shape above, non-choice values are
\* strings, and an integer value is always an option ID of its choice field.
C6_OnlyOptionIdsAreIntegers ==
    Converted =>
        /\ C6_Shape
        /\ C6_NonChoiceIsString
        /\ \A i \in 1..Len(ConvertedFields) :
              Lookup(ConvertedFields[i].v, "value").t = "int"
              => /\ IsChoice(FieldWithId(Table, Lookup(ConvertedFields[i].v, "id").v))
                 /\ IsOptionIdOf(FieldWithId(Table, Lookup(ConvertedFields[i].v, "id").v),
                                 Lookup(ConvertedFields[i].v, "value"))

\* C6, amended: the returned value has the shape above, non-choice values are
\* strings, and an integer value belongs to a choice field: it is an option ID
\* of that field or the integer the caller gave for it, passed on unchanged.
C6_IntegersOnlyForChoiceFields ==
    Converted =>
        /\ C6_Shape
        /\ C6_NonChoiceIsString
        /\ \A i \in 1..Len(ConvertedFields) :
              /\ Lookup(ConvertedFields[i].v, "value").t \in {"str", "int"}
              /\ Lookup(ConvertedFields[i].v, "value").t = "int"
                 => /\ FieldWithId(Table, Lookup(ConvertedFields[i].v, "id").v).type
                         = "choice"
                    /\ \/ IsOptionIdOf(
                             FieldWithId(Table, Lookup(ConvertedFields[i].v, "id").v),
                             Lookup(ConvertedFields[i].v, "value"))
                       \/ Lookup(ConvertedFields[i].v, "value")
                             \in CallerValues(last.property_data,
                                   FieldWithId(Table,
                                       Lookup(ConvertedFields[i].v, "id").v).key)

\* C6's case: purchase_amount 450000 becomes "450000", and the integer given
\* as client_type, no option ID of the table, is returned as it is
C6_Witness ==
    /\ Converted /\ last.table = 2
    /\ IsSimpleFormat(last.property_data)
    /\ Get(last.property_data.v, "purchase_amount") = IntV(450000)
    /\ Get(last.property_data.v, "client_type") = IntV(797213)
    /\ HasEntry(ConvertedFields, 926554, StrV(<<"4", "5", "0", "0", "0", "0">>))
    /\ HasEntry(ConvertedFields, 926553, IntV(797213))

\* the dict a title string stands for
TitleDict(title) ==
    DictV(<<Item("title", StrV(Strip(title))),
            Item("client_type", StrV(sBuyer)),
            Item("status", StrV(sListingActive))>>)

\* C7: a call with a string that is not blank POSTs what the call with the dict
\* {"title": T.strip(), "client_type": "Buyer", "status": "Listing- Active"},
\* the same team_member_id and the same mapping table POSTs.
C7_TitleStringIsDict ==
    (Called /\ last.property_data.t = "str" /\ Strip(last.property_data.v) # <<>>)
    => last.posted = create_property(TitleDict(last.property_data.v),
                                     last.team_member_id, Table, last.lookup,
                                     "").posted

\* C7's case: " Home " is POSTed
C7_Witness ==
    /\ Called /\ Posted /\ last.table = 2
    /\ last.property_data = StrV(sHomePadded)
    /\ HasEntry(BodyFields, 926565, StrV(sHome))

\* property_data gives no title: a blank string, or a simple-format dict with
\* no non-empty value under "title" or "contract_title"
NoTitle(pd) ==
    \/ pd.t = "str" /\ Strip(pd.v) = <<>>
    \/ /\ IsSimpleFormat(pd)
       /\ ~Truthy(Get(pd.v, "title"))
       /\ ~Truthy(Get(pd.v, "contract_title"))

Unusable(d, key) == ~Truthy(Get(d, AliasFor(key))) /\ ~Truthy(Get(d, key))

\* the table has the title field the API validates and both default options
HasDefaults(fm) ==
    /\ HasField(fm, "contract_title") /\ FieldOf(fm, "contract_title").id = 926565
    /\ HasField(fm, "contract_client_type")
    /\ MatchesOption(FieldOf(fm, "contract_client_type"), StrV(kBuyer))
    /\ HasField(fm, "contract_status")
    /\ MatchesOption(FieldOf(fm, "contract_status"), StrV(kListingActive))

\* C9: a simple-format dict with a title and no usable client type and status
\* is POSTed with the option IDs of buyer and of listing- active.
C9_DefaultsApply ==
    (/\ Called /\ IsSimpleFormat(last.property_data)
     /\ ~NoTitle(last.property_data)
     /\ Unusable(last.property_data.v, "contract_client_type")
     /\ Unusable(last.property_data.v, "contract_status")
     /\ HasDefaults(Table))
    => /\ Posted
       /\ HasEntry(BodyFields, FieldOf(Table, "contract_client_type").id,
                   IntV(OptionId(FieldOf(Table, "contract_client_type"), StrV(kBuyer))))
       /\ HasEntry(BodyFields, FieldOf(Table, "contract_status").id,
                   IntV(OptionId(FieldOf(Table, "contract_status"),
                                 StrV(kListingActive))))

\* the dict has no top-level key besides those of the API format
OnlyApiKeys(d) ==
    \A i \in 1..Len(d) : d[i].k \in {"team_member_id", "time_zone_id", "fields"}

HasTitleEntry(fields) == \E i \in 1..Len(fields) : IsTitleEntry(fields[i])

C12_UpdateTranslates ==
    (/\ last.op = "update_property" /\ Len(last.put) = 1
     /\ IsSimpleFormat(last.property_data)
     /\ Get(last.property_data.v, "client_type") = StrV(sBuyer)
     /\ HasDefaults(Tables[server_fields]))
    => /\ HasKey(last.put[1].v, "fields")
       /\ HasEntry(Lookup(last.put[1].v, "fields").v,
                   FieldOf(Tables[server_fields], "contract_client_type").id,
                   IntV(OptionId(FieldOf(Tables[server_fields], "contract_client_type"),
                                 StrV(kBuyer))))

\* create_property converted a dict that validate_property_data, reading the
\* same mapping table, reports as valid
CreatedValidDict ==
    /\ Called /\ last.property_data.t = "dict" /\ last.table # 0
    /\ validate_property_data(last.property_data, Table).is_valid

\* the table gives the title field the ID that _validate_property_data looks for
HasStandardTitleId(fm) ==
    HasField(fm, "contract_title") /\ FieldOf(fm, "contract_title").id = 926565

TeamLookupFailed == last.team_lookups = 1 /\ ~last.lookup.ok

\* C17: a create_property or update_property call one of whose requests failed
\* (the team lookup included) raises a typed request error and returns no
\* normal result.
C17_FailedRequestIsRaised ==
    /\ (last.op = "create_property" /\ TeamLookupFailed)
       => last.outcome \in RequestErrors
    /\ (last.op \in {"create_property", "update_property"}
        /\ last.outcome = "returned")
       => ~TeamLookupFailed

IsSeparator(c) == c \in {"-", " "}

NotSeparator(c) == ~IsSeparator(c)

\* the text in lower case without its hyphens and spaces
Letters(text) == SelectSeq(Lower(text), NotSeparator)

\* the text names the option, however loosely: equal up to case, hyphens and
\* spaces, with or without a leading "listing"
NamesOption(text, option_key) ==
    \/ Letters(text) = Letters(option_key)
    \/ Letters(text) = sListing \o Letters(option_key)

\* the dict gives, under the alias, a string that names no option of the field
GivesInvalidText(d, fm, alias) ==
    /\ HasKey(d, alias)
    /\ Lookup(d, alias).t = "str"
    /\ \A j \in 1..Len(FieldOf(fm, field_aliases(alias)).options) :
          ~NamesOption(Lookup(d, alias).v,
                       FieldOf(fm, field_aliases(alias)).options[j].k)

\* the table defines the client type and the status as choice fields
DefinesChoices(fm) ==
    /\ HasField(fm, "contract_client_type")
    /\ IsChoice(FieldOf(fm, "contract_client_type"))
    /\ HasField(fm, "contract_status")
    /\ IsChoice(FieldOf(fm, "contract_status"))

-----------------------------------------------------------------------------
(* Properties of the cached field mappings, checked under SpecCache *)

ReadingCalls ==
    {"get_field_mappings", "create_property", "list_available_fields",
     "validate_property_data"}

\* C3: a call made while a table is cached fetches nothing, leaves the cache
\* as it is and sees the cached table; a first successful call fetches once
\* and caches what it fetched; refresh_field_mappings fetches exactly once and,
\* when the fetch succeeds, replaces the cache by the table fetched.
C3_FetchedOnce ==
    [][/\ (field_mappings # 0 /\ last'.op \in ReadingCalls)
          => /\ last'.fetches = 0
             /\ field_mappings' = field_mappings
             /\ last'.table \in {0, field_mappings}
             /\ last'.op # "create_property" => last'.table = field_mappings
       /\ (field_mappings = 0 /\ last'.op \in ReadingCalls)
          => /\ last'.fetches <= 1
             /\ last'.table # 0
                => /\ last'.fetches = 1
                   /\ last'.table = server_fields
                   /\ field_mappings' = server_fields
       /\ last'.op = "refresh_field_mappings"
          => /\ last'.fetches = 1
             /\ last'.outcome = "returned"
                => field_mappings' = server_fields /\ last'.table = server_fields
             /\ last'.outcome # "returned" => field_mappings' = field_mappings
      ]_vars

\* C3's case: the API's definitions have changed since the table was cached,
\* and a call still sees the cached table without a request
C3_Witness ==
    /\ last.op = "validate_property_data"
    /\ field_mappings # 0 /\ field_mappings # server_fields
    /\ last.table = field_mappings
    /\ last.fetches = 0
    /\ last.outcome = "returned"

\* validate_property_data returned (is_valid, errors)
ValidateReturned ==
    last.op = "validate_property_data" /\ last.outcome = "returned"

RequiredKeys == {"contract_title", "contract_client_type", "contract_status"}

\* the number of messages of one kind about one key
Messages(errors, error, key) ==
    Cardinality({i \in 1..Len(errors) :
                    errors[i].error = error /\ errors[i].key = key})

\* the field has no non-empty value under its own key or under its alias
NoValue(d, key) ==
    /\ ~(HasKey(d, key) /\ Truthy(Lookup(d, key)))
    /\ ~(HasKey(d, AliasFor(key)) /\ Truthy(Lookup(d, AliasFor(key))))

\* the key is neither in the mapping table nor an alias of a required field
\* (a required field's own key is one of its aliases)
UnknownKey(fm, key) ==
    ~HasField(fm, key) /\ \A r \in RequiredKeys : key \notin {r, AliasFor(r)}

\* the field a key of the dict stands for
FieldKeyOf(fm, key) ==
    IF ~HasField(fm, key) /\ \E r \in RequiredKeys : key = AliasFor(r)
    THEN CHOOSE r \in RequiredKeys : key = AliasFor(r)
    ELSE key

\* item i of the dict gives a choice field a string that, lowercased, is not
\* an option key
InvalidItem(fm, d, i) ==
    /\ HasField(fm, FieldKeyOf(fm, d[i].k))
    /\ IsChoice(FieldOf(fm, FieldKeyOf(fm, d[i].k)))
    /\ d[i].v.t = "str"
    /\ ~MatchesOption(FieldOf(fm, FieldKeyOf(fm, d[i].k)), d[i].v)

\* C13: validate_property_data returns (is_valid, errors) with is_valid true
\* exactly when errors is empty; errors holds one "Missing required field" per
\* required field without a non-empty value under any alias, one "Unknown
\* field" per key that is neither in the table nor an alias of a required
\* field, one "Invalid value" per key of a choice field whose string value,
\* lowercased, is not an option key, and nothing else; no create or update
\* request is sent.
C13_ValidationReport ==
    ValidateReturned =>
        /\ last.result.is_valid = (last.result.errors = <<>>)
        /\ \A r \in RequiredKeys :
              Messages(last.result.errors, "Missing required field", r)
                = IF NoValue(last.property_data.v, r) THEN 1 ELSE 0
        /\ \A i \in 1..Len(last.property_data.v) :
              Messages(last.result.errors, "Unknown field", last.property_data.v[i].k)
                = IF UnknownKey(Table, last.property_data.v[i].k) THEN 1 ELSE 0
        /\ \A r \in {FieldKeyOf(Table, last.property_data.v[i].k) :
                          i \in 1..Len(last.property_data.v)} :
              Messages(last.result.errors, "Invalid value", r)
                = Cardinality({i \in 1..Len(last.property_data.v) :
                                  /\ FieldKeyOf(Table, last.property_data.v[i].k) = r
                                  /\ InvalidItem(Table, last.property_data.v, i)})
        /\ Len(last.result.errors)
             = Cardinality({r \in RequiredKeys : NoValue(last.property_data.v, r)})
               + Cardinality({i \in 1..Len(last.property_data.v) :
                                 \/ UnknownKey(Table, last.property_data.v[i].k)
                                 \/ InvalidItem(Table, last.property_data.v, i)})
        /\ last.posted = <<>> /\ last.put = <<>>

\* a report with a message of each kind, and a clean report
C13_Witness ==
    /\ ValidateReturned
    /\ ~last.result.is_valid
    /\ \E i \in 1..Len(last.result.errors) :
          last.result.errors[i].error = "Missing required field"
    /\ \E i \in 1..Len(last.result.errors) :
          last.result.errors[i].error = "Unknown field"
    /\ \E i \in 1..Len(last.result.errors) :
          /\ last.result.errors[i].error = "Invalid value"
          /\ last.result.errors[i].key = "contract_client_type"

-----------------------------------------------------------------------------
(* Properties of OpenToCloseAPI, checked under SpecClient *)

Constructed == client.package # "none" /\ client.outcome = "returned"

\* C15: constructing OpenToCloseAPI creates no service client; over any
\* sequence of accessor reads each service is constructed at most once, a read
\* of an accessor whose service exists returns that same instance, every read
\* that returns gives the instance the object holds, and a read constructs no
\* service other than its own.
C15_LazyServices ==
    [][/\ (client.package = "none" /\ client'.package # "none")
          => \A a \in Accessors :
                client'.services[a] = 0 /\ client'.built[a] = 0
       /\ (client.package # "none" /\ client' # client)
          => /\ client'.access.name \in Accessors
             /\ \A a \in Accessors :
                   /\ client'.built[a] <= 1
                   /\ a # client'.access.name
                      => /\ client'.services[a] = client.services[a]
                         /\ client'.built[a] = client.built[a]
                   /\ (a = client'.access.name /\ client.services[a] # 0)
                      => /\ client'.access.outcome = "returned"
                         /\ client'.access.got = client.services[a]
                         /\ client'.services[a] = client.services[a]
                         /\ client'.built[a] = client.built[a]
                   /\ (a = client'.access.name
                       /\ client'.access.outcome = "returned")
                      => /\ client'.access.got = client'.services[a]
                         /\ client'.access.got # 0
      ]_vars

\* properties was read again after teams and properties had been built
C15_Witness ==
    /\ Constructed
    /\ client.access = [name |-> "properties", got |-> 1, outcome |-> "returned",
                        constructed |-> FALSE]
    /\ client.built["properties"] = 1 /\ client.built["teams"] = 1
    /\ client.built["users"] = 0

\* C16: constructing OpenToCloseAPI with no api_key argument while
\* OPEN_TO_CLOSE_API_KEY is not set raises AuthenticationError at construction.
C16_NoKeyRaisesAtConstruction ==
    (client.package # "none" /\ ~client.api_key /\ ~client.env)
    => client.outcome = "AuthenticationError"

-----------------------------------------------------------------------------
(* Properties of BaseClient, checked under SpecHttp *)

HttpCalled == http.op # "idle"

Raises(error) == http.outcome = error /\ http.error_status = http.status_code

\* C4: every response is mapped by its status code alone: 200 and 201 return
\* the decoded body, 204 an empty dict, 400 raises ValidationError, 401
\* AuthenticationError, 404 NotFoundError, 429 RateLimitError, 500..599
\* ServerError, any other code OpenToCloseAPIError, each carrying the status.
C4_StatusDecidesOutcome ==
    (HttpCalled /\ http.transport_ok) =>
        IF http.status_code \in {200, 201}
        THEN http.outcome = "returned" /\ http.value = response_data(http.body)
        ELSE IF http.status_code = 204
        THEN http.outcome = "returned" /\ http.value = DictV(<<>>)
        ELSE IF http.status_code = 400 THEN Raises("ValidationError")
        ELSE IF http.status_code = 401 THEN Raises("AuthenticationError")
        ELSE IF http.status_code = 404 THEN Raises("NotFoundError")
        ELSE IF http.status_code = 429 THEN Raises("RateLimitError")
        ELSE IF http.status_code \in 500..599 THEN Raises("ServerError")
        ELSE Raises("OpenToCloseAPIError")

\* C5: every call of get, post, put, delete or patch sends exactly one request,
\* with the verb's method, whatever its outcome.
C5_OneRequestPerCall ==
    HttpCalled => http.sent = <<method_of(http.op)>>

\* C5's case: a 503 answer to a PUT is raised after the one request
C5_Witness ==
    /\ http.op = "put" /\ http.transport_ok
    /\ http.status_code = 503
    /\ http.outcome = "ServerError"
    /\ http.sent = <<"PUT">>
====
